---- MODULE Spec2Model ----
(***************************************************************************)
(* DeesseJS: the context registry (addContext / getContext / resetContext  *)
(* / withContext), the configuration builder (defineConfig / createAuth),  *)
(* the database object (generateDatabase) and the query / mutation         *)
(* function factories, modelled as state machines.                         *)
(*                                                                         *)
(* Spec     the context system of "Deesse Context System (v1)"             *)
(* SpecApp  defineConfig and the functions returned by query / mutation    *)
(* SpecDb   generateDatabase and the two designs of initializeDatabase    *)
(*          (registry, global array) over bounded lists of collections     *)
(* SpecConfig    the configuration cache: defineConfig, getConfig, and the *)
(*               auth module that reads it while loading                   *)
(* SpecBuild     buildConfig with awaited plugins and the configuration    *)
(*               file that exports its promise                             *)
(* SpecAdmin     the admin route: Page and RootLayout                      *)
(* SpecScaffold  create-deesse-app: init and copyDir                       *)
(* SpecHooks     the hook pipeline of a create, update or delete           *)
(* SpecBuilder   the context builder: use, build, reset                    *)
(***************************************************************************)
EXTENDS Integers, Sequences, FiniteSets, TLC

VARIABLES
    registry,   \* const registry: ContextProvider[]
    nextReg,    \* history: number of addContext calls made so far
    added,      \* history: registration numbers passed to addContext since the last reset
    built,      \* history: some getContext has returned since the last reset
    calls,      \* the getContext calls made so far, running or settled
    ctxs,       \* the context objects handed to callers (getContext results, withContext results)
    wrote,      \* history: some holder of a context has tried to assign to it or delete from it
    collections, \* the list handed to generateDatabase
    database,   \* what generateDatabase did with it: not run yet, returned, or threw
    registered, \* CollectionRegistry.collections after initializeDatabase: Map<string, Collection>
    globalCollections, \* let globalCollections of the design without a registry
    env,        \* process.env.DEESSE_SECRET, and what the installed better-auth does without a secret
    config,     \* the Config handed to defineConfig
    final,      \* what defineConfig did with it: not run yet, returned the FinalConfig, or threw
    fn,         \* the config handed to query / mutation: kind and args schema
    args,       \* the argument the returned function is called with
    call,       \* that call: where it is, its promise, the handler invocation
    cachedConfig, \* let _config: Config | null
    defines,    \* history: the configurations stored in the cache so far, in order
    reads,      \* history: the getConfig calls made so far and what each did
    authModule, \* the auth module: not loaded yet, loaded, or failed while loading
    plugins,    \* config.plugins of the configuration file
    buildCall,  \* the buildConfig call made by the configuration file
    request,    \* a visit to /admin/...: the visitor's session and the route's segments
    page,       \* the Page render for that visit: where it is and what it returned
    answer,     \* what the user answers to the prompts of create-deesse-app
    disk,       \* the directories the run can touch: whether each exists and its files
    run,        \* the create-deesse-app run: where it is, its exit status, what it wrote
    op,         \* a create, update or delete on a collection: its hooks, whether its data is valid
    pipe,       \* the hook pipeline of that operation: where it is and what has run
    builder,    \* a context builder: its context variable (a reference) and usedPlugins
    heap,       \* the context objects the builder has created, by reference
    builds,     \* the objects build() has returned, with what each held when returned
    uses        \* history: use() calls made so far, how many at the last reset, the plugins merged since

ctxVars == <<registry, nextReg, added, built, calls, ctxs, wrote>>
dbVars == <<collections, database, registered, globalCollections>>
appVars == <<env, config, final, fn, args, call>>
cacheVars == <<cachedConfig, defines, reads, authModule, plugins, buildCall>>
adminVars == <<request, page>>
scaffoldVars == <<answer, disk, run>>
hookVars == <<op, pipe>>
builderVars == <<builder, heap, builds, uses>>
vars == <<ctxVars, dbVars, appVars, cacheVars, adminVars, scaffoldVars, hookVars, builderVars>>

\* the subsystems share no state: an operation of one leaves the others alone
CtxOnly == UNCHANGED <<dbVars, appVars, cacheVars, adminVars, scaffoldVars, hookVars, builderVars>>
DbOnly == UNCHANGED <<ctxVars, appVars, cacheVars, adminVars, scaffoldVars, hookVars, builderVars>>
AppOnly == UNCHANGED <<ctxVars, dbVars, cacheVars, adminVars, scaffoldVars, hookVars, builderVars>>
CacheOnly == UNCHANGED <<ctxVars, dbVars, appVars, adminVars, scaffoldVars, hookVars, builderVars>>
AdminOnly == UNCHANGED <<ctxVars, dbVars, appVars, cacheVars, scaffoldVars, hookVars, builderVars>>
ScaffoldOnly == UNCHANGED <<ctxVars, dbVars, appVars, cacheVars, adminVars, hookVars, builderVars>>
HookOnly == UNCHANGED <<ctxVars, dbVars, appVars, cacheVars, adminVars, scaffoldVars, builderVars>>
BuilderOnly == UNCHANGED <<ctxVars, dbVars, appVars, cacheVars, adminVars, scaffoldVars, hookVars>>

(***************************************************************************)
(* Bounds of the model.                                                    *)
(***************************************************************************)
MaxOps == 4           \* addContext, getContext and withContext calls in one behaviour
MaxCollections == 3   \* length of the list handed to generateDatabase
MaxDefines == 2       \* configurations stored in the cache in one behaviour
MaxReads == 2         \* getConfig calls in one behaviour
MaxPlugins == 2       \* length of config.plugins
MaxSegments == 2      \* segments of an admin route
MaxHooks == 1         \* hooks chained in one phase of a collection
MaxBuilderOps == 5    \* use, build and reset calls on one builder

(***************************************************************************)
(* Objects are finite maps from property names to values.                  *)
(***************************************************************************)
EmptyObj == [k \in {} |-> 0]

\* { ...ctx, ...partial }: own properties of ctx, then those of partial on top
Spread(ctx, partial) ==
    [k \in (DOMAIN ctx) \cup (DOMAIN partial) |->
        IF k \in DOMAIN partial THEN partial[k] ELSE ctx[k]]

\* ObjectFreeze without the freeze
ObjectNotFrozen(props) ==
    [props |-> props, frozen |-> FALSE, orig |-> props]

\* Object.freeze(obj): the same properties, no longer writable or extensible
\* (orig is history: the properties at construction)
ObjectFreeze(props) ==
    [props |-> props, frozen |-> TRUE, orig |-> props]

\* obj[k] = v attempted by user code: ignored (or a TypeError in strict mode)
\* on a frozen object, an own-property write otherwise
AssignProp(obj, k, v) ==
    IF obj.frozen
    THEN obj
    ELSE [obj EXCEPT !.props = Spread(obj.props, [x \in {k} |-> v])]

\* delete obj[k] attempted by user code
DeleteProp(obj, k) ==
    IF obj.frozen
    THEN obj
    ELSE [obj EXCEPT !.props = [x \in (DOMAIN obj.props) \ {k} |-> obj.props[x]]]

(***************************************************************************)
(* Context providers: (ctx) => Promise<Partial<Context>>.  The providers   *)
(* of the documentation's examples, and one whose promise rejects.         *)
(***************************************************************************)
Providers == {"db1", "db2", "audit", "boom"}

\* what `await provider(ctx)` yields: a fragment, or a thrown error
ProviderResult(p, ctx) ==
    CASE p = "db1"   -> [threw |-> FALSE, value |-> [db |-> 1], err |-> "none"]
      [] p = "db2"   -> [threw |-> FALSE, value |-> [db |-> 2], err |-> "none"]
      [] p = "audit" -> [threw |-> FALSE,
                         value |-> [audit |-> IF "db" \in DOMAIN ctx THEN ctx.db ELSE 0],
                         err |-> "none"]
      [] p = "boom"  -> [threw |-> TRUE, value |-> EmptyObj, err |-> "boom failed"]

\* the patches the examples hand to withContext
Patches == {[user |-> 7], [db |-> 9]}

PropNames == {"db", "audit", "user"}

(***************************************************************************)
(* The registry.                                                           *)
(***************************************************************************)
\* RegistryPush that ignores a provider registered after a build
RegistryPushUnlessBuilt(reg, entry) == IF entry.late THEN reg ELSE Append(reg, entry)

\* registry.push(provider)
RegistryPush(reg, entry) == Append(reg, entry)

\* the mutant of RegistryClear: the array is left as it is
RegistryClearNothing(reg) == reg

\* registry.length = 0
RegistryClear(reg) == <<>>

Regs(s) == [i \in 1..Len(s) |-> s[i].reg]

(***************************************************************************)
(* getContext.  An async function: it runs synchronously up to             *)
(* `await provider(ctx)`, where other code (addContext, resetContext,      *)
(* another getContext) may run, and resumes when the provider settles.     *)
(* `for (const provider of registry)` reads registry[index] and            *)
(* registry.length of the live array each time round.                      *)
(***************************************************************************)
\* one round of the loop head: the next provider is invoked with ctx, or the
\* loop is over and the frozen ctx is returned
LoopHead(c, reg, index) ==
    IF index <= Len(reg)
    THEN [c EXCEPT !.pc = "await",
                   !.idx = index,
                   !.pend = reg[index],
                   !.invoked = Append(@, [reg |-> reg[index].reg,
                                          p |-> reg[index].p,
                                          late |-> reg[index].late,
                                          arg |-> c.ctx,
                                          before |-> Regs(SubSeq(reg, 1, index - 1))])]
    ELSE [c EXCEPT !.pc = "done", !.idx = index]

\* let ctx = {}; then the loop head
NewCall == [pc |-> "start", idx |-> 0, ctx |-> EmptyObj,
            pend |-> [p |-> "none", reg |-> 0, late |-> FALSE],
            invoked |-> <<>>, log |-> <<>>, res |-> 0, err |-> "none",
            snap |-> added, sawReset |-> FALSE, startReg |-> nextReg]

\* MergePartial with the operands of the spread swapped
MergePartialEarlierWins(ctx, partial) == Spread(partial, ctx)

\* ctx = { ...ctx, ...partial }
MergePartial(ctx, partial) == Spread(ctx, partial)

\* Rejected with the error caught and the context built so far returned
RejectedSwallowed(c, err) == [c EXCEPT !.pc = "done"]

\* the provider's promise rejects: the await throws, nothing catches it, and
\* the promise of getContext rejects with the same error
Rejected(c, err) == [c EXCEPT !.pc = "failed", !.err = err]

\* the continuation after `await provider(ctx)`
Resume(c, reg) ==
    LET r == ProviderResult(c.pend.p, c.ctx) IN
    IF r.threw
    THEN Rejected(c, r.err)
    ELSE LoopHead([c EXCEPT !.ctx = MergePartial(c.ctx, r.value),
                            !.log = Append(@, [reg |-> c.pend.reg,
                                               p |-> c.pend.p,
                                               late |-> c.pend.late,
                                               frag |-> r.value])],
                  reg, c.idx + 1)

\* return Object.freeze(ctx)
Returned(c) == ObjectFreeze(c.ctx)

\* a call that reached the return statement hands its context to the caller
Settle(c, cs) ==
    IF c.pc = "done"
    THEN [call |-> [c EXCEPT !.res = Len(cs) + 1], ctxs |-> Append(cs, Returned(c))]
    ELSE [call |-> c, ctxs |-> cs]

Derived == Len(ctxs) - Cardinality({i \in 1..Len(calls) : calls[i].res # 0})

\* the API calls made so far (getContext calls may overlap)
Ops == nextReg + Len(calls) + Derived

addContext(p) ==
    /\ Ops < MaxOps
    /\ registry' = RegistryPush(registry,
                                [p |-> p, reg |-> nextReg + 1, late |-> built])
    /\ nextReg' = nextReg + 1
    /\ added' = Append(added, nextReg + 1)
    /\ UNCHANGED <<built, calls, ctxs, wrote>>
    /\ CtxOnly

resetContext ==
    /\ registry' = RegistryClear(registry)
    /\ added' = <<>>
    /\ built' = FALSE
    /\ calls' = [i \in 1..Len(calls) |->
                    IF calls[i].pc = "await"
                    THEN [calls[i] EXCEPT !.sawReset = TRUE]
                    ELSE calls[i]]
    /\ UNCHANGED <<nextReg, ctxs, wrote>>
    /\ CtxOnly

getContext ==
    /\ Ops < MaxOps
    /\ LET s == Settle(LoopHead(NewCall, registry, 1), ctxs) IN
        /\ calls' = Append(calls, s.call)
        /\ ctxs' = s.ctxs
        /\ built' = (built \/ s.call.pc = "done")
    /\ UNCHANGED <<registry, nextReg, added, wrote>>
    /\ CtxOnly

ProviderSettles(i) ==
    /\ calls[i].pc = "await"
    /\ LET s == Settle(Resume(calls[i], registry), ctxs) IN
        /\ calls' = [calls EXCEPT ![i] = s.call]
        /\ ctxs' = s.ctxs
        /\ built' = (built \/ s.call.pc = "done")
    /\ UNCHANGED <<registry, nextReg, added, wrote>>
    /\ CtxOnly

\* withContext(ctx, patch) == Object.freeze({ ...ctx, ...patch })
withContextValue(ctx, patch) == ObjectFreeze(Spread(ctx.props, patch))

withContext(i, patch) ==
    /\ Ops < MaxOps
    /\ ctxs' = Append(ctxs, withContextValue(ctxs[i], patch))
    /\ UNCHANGED <<registry, nextReg, added, built, calls, wrote>>
    /\ CtxOnly

\* a handler (or any holder of a context) assigns to it or deletes from it
HandlerAssigns(i, k, v) ==
    /\ ctxs' = [ctxs EXCEPT ![i] = AssignProp(@, k, v)]
    /\ wrote' = TRUE
    /\ UNCHANGED <<registry, nextReg, added, built, calls>>
    /\ CtxOnly

HandlerDeletes(i, k) ==
    /\ ctxs' = [ctxs EXCEPT ![i] = DeleteProp(@, k)]
    /\ wrote' = TRUE
    /\ UNCHANGED <<registry, nextReg, added, built, calls>>
    /\ CtxOnly

CtxInit ==
    /\ registry = <<>>
    /\ nextReg = 0
    /\ added = <<>>
    /\ built = FALSE
    /\ calls = <<>>
    /\ ctxs = <<>>
    /\ wrote = FALSE

CtxNext ==
    \/ \E p \in Providers : addContext(p)
    \/ resetContext
    \/ getContext
    \/ \E i \in 1..Len(calls) : ProviderSettles(i)
    \/ \E i \in 1..Len(ctxs), patch \in Patches : withContext(i, patch)
    \/ \E i \in 1..Len(ctxs), k \in PropNames : HandlerAssigns(i, k, 5)
    \/ \E i \in 1..Len(ctxs), k \in PropNames : HandlerDeletes(i, k)

(***************************************************************************)
(* generateDatabase (database/generate.ts).                                *)
(***************************************************************************)
\* slugs the rules of defineCollection allow: lowercase letters, digits and
\* hyphens, starting with a letter
Slugs == {"posts", "users", "length"}

\* Collection = { name, slug, fields }
Collections == [name : {"A", "B"}, slug : Slugs, fields : {EmptyObj}]

\* type CollectionMethods = { create, update, delete, find }
CollectionMethods == {"create", "update", "delete", "find"}

\* const database: any = []  -- an array: its one own property is length
NewArray == [threw |-> FALSE, props |-> [k \in {"length"} |-> [len |-> 0]]]

\* database[collection.slug] = collection.  Assigning a non-number to the
\* length of an array throws a RangeError; any other slug becomes an own
\* property holding the collection
SetSlug(db, collection) ==
    IF db.threw
    THEN db
    ELSE IF collection.slug = "length"
         THEN [db EXCEPT !.threw = TRUE]
         ELSE [db EXCEPT !.props = Spread(db.props,
                                          [k \in {collection.slug} |-> collection])]

\* collections.forEach((collection) => { database[collection.slug] = collection })
RECURSIVE ForEachSet(_, _, _)
ForEachSet(cols, n, db) ==
    IF n > Len(cols) THEN db ELSE ForEachSet(cols, n + 1, SetSlug(db, cols[n]))

generateDatabaseValue(cols) == ForEachSet(cols, 1, NewArray)

generateDatabase ==
    /\ database.status = "idle"
    /\ LET db == generateDatabaseValue(collections) IN
       database' = [status |-> IF db.threw THEN "threw" ELSE "returned",
                    props |-> db.props]
    /\ UNCHANGED <<collections, registered, globalCollections>>
    /\ DbOnly

\* Map.prototype.set: a Map keeps its entries in the order their keys were
\* first set; setting a key again replaces the value where it is
MapSet(entries, key, value) ==
    IF \E i \in 1..Len(entries) : entries[i].key = key
    THEN [i \in 1..Len(entries) |->
            IF entries[i].key = key THEN [key |-> key, value |-> value] ELSE entries[i]]
    ELSE Append(entries, [key |-> key, value |-> value])

\* registerCollection(collection): this.collections.set(collection.slug, collection)
registerCollection(map, collection) == MapSet(map, collection.slug, collection)

\* collections.forEach(col => registry.registerCollection(col))
RECURSIVE RegisterAll(_, _, _)
RegisterAll(cols, n, map) ==
    IF n > Len(cols) THEN map
    ELSE RegisterAll(cols, n + 1, registerCollection(map, cols[n]))

\* initializeDatabase(collections): clear the registry, register each collection
initializeDatabase ==
    /\ registered.status = "idle"
    /\ registered' = [status |-> "returned", map |-> RegisterAll(collections, 1, <<>>)]
    /\ UNCHANGED <<collections, database, globalCollections>>
    /\ DbOnly

\* registry design, getCollections(): Array.from(this.collections.values())
RegistryGetCollections(map) == [i \in 1..Len(map) |-> map[i].value]

\* registry design, getCollection(slug): this.collections.get(slug); the
\* result is <<>> for undefined, <<collection>> otherwise
RegistryGetCollection(map, slug) ==
    IF \E i \in 1..Len(map) : map[i].key = slug
    THEN <<map[CHOOSE i \in 1..Len(map) : map[i].key = slug].value>>
    ELSE <<>>

\* design without a registry, initializeDatabase(collections):
\* globalCollections = [...collections]
initializeDatabaseArray ==
    /\ globalCollections.status = "idle"
    /\ globalCollections' = [status |-> "returned", list |-> collections]
    /\ UNCHANGED <<collections, database, registered>>
    /\ DbOnly

\* design without a registry, getCollections(): return globalCollections
ArrayGetCollections(list) == list

\* design without a registry, getCollection(slug):
\* globalCollections.find(col => col.slug === slug), the first match
ArrayGetCollection(list, slug) ==
    LET hits == {i \in 1..Len(list) : list[i].slug = slug} IN
    IF hits = {} THEN <<>>
    ELSE <<list[CHOOSE i \in hits : \A k \in hits : i <= k]>>

\* the methods generateDatabase() of both designs puts under each slug; each
\* is a closure over collection.slug
DbMethods == {"create", "find", "update", "delete", "findById"}

\* generateDatabase() of both designs, from the list getCollections() returns:
\* const db = {}; collections.forEach(collection => { db[collection.slug] = {...} })
RECURSIVE dbGenerator(_, _, _)
dbGenerator(cols, n, db) ==
    IF n > Len(cols) THEN db
    ELSE dbGenerator(cols, n + 1,
                     Spread(db, [k \in {cols[n].slug} |-> [m \in DbMethods |-> cols[n].slug]]))

Lists(S, n) == UNION {[1..m -> S] : m \in 0..n}

DbIdle ==
    /\ collections = <<>>
    /\ database = [status |-> "idle", props |-> EmptyObj]
    /\ registered = [status |-> "idle", map |-> <<>>]
    /\ globalCollections = [status |-> "idle", list |-> <<>>]

DbInit ==
    /\ collections \in Lists(Collections, MaxCollections)
    /\ database = [status |-> "idle", props |-> EmptyObj]
    /\ registered = [status |-> "idle", map |-> <<>>]
    /\ globalCollections = [status |-> "idle", list |-> <<>>]

DbNext ==
    \/ generateDatabase
    \/ initializeDatabase
    \/ initializeDatabaseArray

(***************************************************************************)
(* defineConfig / createAuth (config/define.ts, auth).                     *)
(***************************************************************************)
\* betterAuth({ database, ...config.auth, secret }): the library is not part
\* of the repository; env.strict says whether the installed version refuses
\* to be constructed without a secret
betterAuth(options, strict) ==
    IF strict /\ options.secret = "undefined"
    THEN [threw |-> TRUE, value |-> options]
    ELSE [threw |-> FALSE, value |-> options]

\* createAuth(config): secret: process.env.DEESSE_SECRET comes last in the
\* object literal, after ...config.auth
createAuth(cfg, e) ==
    betterAuth([database |-> cfg.database, secret |-> e.DEESSE_SECRET], e.strict)

\* defineConfig(config) == { ...config, auth: createAuth(config) }
defineConfigValue(cfg, e) ==
    LET auth == createAuth(cfg, e) IN
    IF auth.threw
    THEN [status |-> "threw", database |-> cfg.database,
          collections |-> cfg.collections, auth |-> auth.value]
    ELSE [status |-> "returned", database |-> cfg.database,
          collections |-> cfg.collections, auth |-> auth.value]

defineConfig ==
    /\ final.status = "idle"
    /\ final' = defineConfigValue(config, env)
    /\ UNCHANGED <<env, config, fn, args, call>>
    /\ AppOnly

(***************************************************************************)
(* query / mutation (database/functions.ts).                               *)
(***************************************************************************)
\* JavaScript values a caller can pass: undefined, null, plain objects whose
\* property values are the number 1 (n1), the number 7 (n7), the string "1"
\* (s1) and the string "x" (sx)
Undef == [t |-> "undefined", props |-> EmptyObj]
Null == [t |-> "null", props |-> EmptyObj]
Obj(props) == [t |-> "object", props |-> props]

Inputs == {Undef, Null, Obj(EmptyObj), Obj([id |-> "n1"]), Obj([id |-> "s1"]),
           Obj([id |-> "sx"]), Obj([id |-> "n1", extra |-> "n1"])}

IsNumber(a) == a \in {"n1", "n7"}

\* Number(a) as z.coerce.number() applies it; "NaN" is rejected by z.number()
ToNumber(a) == CASE a = "n1" -> "n1" [] a = "n7" -> "n7" [] a = "s1" -> "n1" [] OTHER -> "NaN"

\* the args schemas: none, z.object({ id: z.number() }),
\* z.object({ id: z.coerce.number() }), z.object({ id: z.number().default(7) }),
\* z.object({}) and z.any()
Schemas == {"none", "idNumber", "idCoerce", "idDefault", "empty", "any"}

\* schema.parse(v): the validated output, or a ZodError.  z.object rejects
\* anything that is not an object and strips the keys it does not declare
Parse(schema, v) ==
    LET bad == [ok |-> FALSE, out |-> Undef]
        good(props) == [ok |-> TRUE, out |-> Obj(props)]
        hasId == "id" \in DOMAIN v.props
    IN  CASE schema = "any" -> [ok |-> TRUE, out |-> v]
          [] v.t # "object" -> bad
          [] schema = "empty" -> good(EmptyObj)
          [] schema = "idNumber" ->
                IF hasId /\ IsNumber(v.props.id) THEN good([id |-> v.props.id]) ELSE bad
          [] schema = "idCoerce" ->
                IF hasId /\ ToNumber(v.props.id) # "NaN"
                THEN good([id |-> ToNumber(v.props.id)]) ELSE bad
          [] schema = "idDefault" ->
                IF ~hasId THEN good([id |-> "n7"])
                ELSE IF IsNumber(v.props.id) THEN good([id |-> v.props.id]) ELSE bad

\* args ?? {}
OrEmpty(v) == IF v.t \in {"undefined", "null"} THEN Obj(EmptyObj) ELSE v

\* ValidationThrows with the result of parse ignored
ValidationSkipped(schema, v) == FALSE

\* if (config.args) config.args.parse(args ?? {}): whether it throws
ValidationThrows(schema, v) == schema # "none" /\ ~Parse(schema, OrEmpty(v)).ok

\* const ctx = { db: generateDatabase([]) } in query, { db: undefined } in mutation
HandlerCtx(kind) ==
    IF kind = "query"
    THEN [db |-> [t |-> "object", props |-> generateDatabaseValue(<<>>).props]]
    ELSE [db |-> [t |-> "undefined", props |-> EmptyObj]]

\* config.handler(ctx, args ?? ({} as any))
HandlerArgs(schema, v) == OrEmpty(v)

\* the body of the returned function, run synchronously when it is called
Body(f, v) ==
    IF ValidationThrows(f.schema, v)
    THEN [threw |-> TRUE, err |-> "ZodError", handler |-> <<>>]
    ELSE [threw |-> FALSE, err |-> "none",
          handler |-> <<[ctx |-> HandlerCtx(f.kind), args |-> HandlerArgs(f.schema, v)]>>]

\* AsyncFunction without the async: the throw leaves the call
NotAsyncFunction(body) ==
    [threwSync |-> body.threw,
     promise |-> IF body.threw THEN [state |-> "none", value |-> "none"]
                 ELSE [state |-> "pending", value |-> "none"]]

\* return async (args) => { ... }: a throw in the body rejects the promise
\* the call returns; the call itself does not throw
AsyncFunction(body) ==
    [threwSync |-> FALSE,
     promise |-> IF body.threw THEN [state |-> "rejected", value |-> body.err]
                 ELSE [state |-> "pending", value |-> "none"]]

\* (configured is history: defineConfig had returned when the call was made)
NoCall == [pc |-> "idle", threwSync |-> FALSE,
           promise |-> [state |-> "none", value |-> "none"],
           handler |-> <<>>, caught |-> "none", got |-> "none",
           configured |-> FALSE]

\* the caller calls the function query(...) / mutation(...) returned
CallFn ==
    /\ call.pc = "idle"
    /\ LET body == Body(fn, args)
           r == AsyncFunction(body)
       IN call' = [call EXCEPT !.pc = IF r.threwSync THEN "threw" ELSE "returned",
                               !.threwSync = r.threwSync,
                               !.caught = IF r.threwSync THEN body.err ELSE "none",
                               !.promise = r.promise,
                               !.handler = body.handler,
                               !.configured = (final.status = "returned")]
    /\ UNCHANGED <<env, config, final, fn, args>>
    /\ AppOnly

\* the promise the handler returned resolves
HandlerSettles ==
    /\ call.pc = "returned"
    /\ call.promise.state = "pending"
    /\ call' = [call EXCEPT !.promise = [state |-> "fulfilled", value |-> "result"]]
    /\ UNCHANGED <<env, config, final, fn, args>>
    /\ AppOnly

\* the caller's await (or .then / .catch) on the returned promise runs
CallerObserves ==
    /\ call.pc = "returned"
    /\ call.promise.state \in {"fulfilled", "rejected"}
    /\ call' = [call EXCEPT !.pc = "observed",
                            !.caught = IF call.promise.state = "rejected"
                                       THEN call.promise.value ELSE "none",
                            !.got = IF call.promise.state = "fulfilled"
                                    THEN call.promise.value ELSE "none"]
    /\ UNCHANGED <<env, config, final, fn, args>>
    /\ AppOnly

\* the collections a configuration lists (collections: [User, Post])
ConfigCollections ==
    {<<>>,
     <<[name |-> "A", slug |-> "posts", fields |-> EmptyObj]>>,
     <<[name |-> "A", slug |-> "users", fields |-> EmptyObj],
       [name |-> "B", slug |-> "posts", fields |-> EmptyObj]>>}

\* defineConfig has not been called
NotDefined == [status |-> "idle", database |-> "undefined", collections |-> <<>>,
               auth |-> [database |-> "undefined", secret |-> "undefined"]]

AppIdle ==
    /\ env = [DEESSE_SECRET |-> "undefined", strict |-> FALSE]
    /\ config = [database |-> "undefined", collections |-> <<>>]
    /\ final = NotDefined
    /\ fn = [kind |-> "query", schema |-> "none"]
    /\ args = Undef
    /\ call = NoCall

AppInit ==
    /\ env \in [DEESSE_SECRET : {"undefined", "s3cret"}, strict : BOOLEAN]
    /\ config \in [database : {"undefined", "drizzle"}, collections : ConfigCollections]
    /\ final = NotDefined
    /\ fn \in [kind : {"query", "mutation"}, schema : Schemas]
    /\ args \in Inputs
    /\ call = NoCall

AppNext ==
    \/ defineConfig
    \/ CallFn
    \/ HandlerSettles
    \/ CallerObserves

(***************************************************************************)
(* The configuration cache (config module) and the modules that read it.   *)
(***************************************************************************)
\* the configurations a program defines; applied lists the plugins that processed it
UserConfigs == {Obj([auth |-> "optsA", applied |-> <<>>]),
                Obj([auth |-> "optsB", applied |-> <<>>])}

\* the mutant of Falsy: nothing is missing
FalsyNever(v) == FALSE

\* !_config
Falsy(v) == v.t \in {"undefined", "null"}

\* getConfig(): throws when the cache is empty, returns the cached object otherwise
getConfigValue(cache) ==
    IF Falsy(cache)
    THEN [threw |-> TRUE, value |-> Undef]
    ELSE [threw |-> FALSE, value |-> cache]

\* defineConfig(config) of the caching config module: _config = config; return config
cacheDefineConfig(c) ==
    /\ Len(defines) < MaxDefines
    /\ cachedConfig' = c
    /\ defines' = Append(defines, c)
    /\ UNCHANGED <<reads, authModule, plugins, buildCall>>
    /\ CacheOnly

\* a caller calls getConfig(); the record keeps what had happened before the call
getConfig ==
    /\ Len(reads) < MaxReads
    /\ LET r == getConfigValue(cachedConfig) IN
       reads' = Append(reads, [threw |-> r.threw, value |-> r.value,
                               defined |-> Len(defines),
                               evaluated |-> buildCall.pc # "unloaded"])
    /\ UNCHANGED <<cachedConfig, defines, authModule, plugins, buildCall>>
    /\ CacheOnly

\* the auth module is loaded: export const auth = betterAuth(getConfig().auth)
\* runs once, when the module is evaluated; a throw fails the load
LoadAuthModule ==
    /\ authModule.status = "unloaded"
    /\ LET r == getConfigValue(cachedConfig) IN
       authModule' = IF r.threw \/ r.value.t # "object"
               THEN [status |-> "failed", options |-> "none", defined |-> Len(defines)]
               ELSE [status |-> "loaded", options |-> r.value.props.auth,
                     defined |-> Len(defines)]
    /\ UNCHANGED <<cachedConfig, defines, reads, plugins, buildCall>>
    /\ CacheOnly

NotBuilding == [pc |-> "unloaded", idx |-> 0, processed |-> Undef, pend |-> Undef]

CacheIdle ==
    /\ cachedConfig = Null
    /\ defines = <<>>
    /\ reads = <<>>
    /\ authModule = [status |-> "unloaded", options |-> "none", defined |-> 0]
    /\ plugins = <<>>
    /\ buildCall = NotBuilding

(***************************************************************************)
(* buildConfig and the configuration file (DRAFT.md, configuration cache). *)
(***************************************************************************)
\* what an entry of config.plugins is: an async function from Config to
\* Config, a function that throws, or a Plugin object ({ pages }), which is
\* not callable
PluginKinds == {"function", "throws", "object"}

\* plugin(processedConfig): the call itself, before the await
CallPlugin(kind, idx, cfg) ==
    IF kind = "function"
    THEN [threw |-> FALSE,
          value |-> Obj([auth |-> cfg.props.auth,
                         applied |-> Append(cfg.props.applied, idx)])]
    ELSE [threw |-> TRUE, value |-> Undef]

\* the mutant of BuildLoopHead: a plugin that throws is skipped
RECURSIVE BuildLoopHeadSkipsThrow(_, _, _)
BuildLoopHeadSkipsThrow(ps, idx, processed) ==
    IF idx > Len(ps)
    THEN [pc |-> "fulfilled", idx |-> idx, processed |-> processed, pend |-> Undef]
    ELSE LET r == CallPlugin(ps[idx], idx, processed) IN
         IF r.threw
         THEN BuildLoopHeadSkipsThrow(ps, idx + 1, processed)
         ELSE [pc |-> "awaiting", idx |-> idx, processed |-> processed, pend |-> r.value]

\* buildConfig from the head of its for-of loop at position idx up to the
\* next await, or to its end: initializeConfig(processedConfig); return
BuildLoopHead(ps, idx, processed) ==
    IF idx > Len(ps)
    THEN [pc |-> "fulfilled", idx |-> idx, processed |-> processed, pend |-> Undef]
    ELSE LET r == CallPlugin(ps[idx], idx, processed) IN
         IF r.threw
         THEN [pc |-> "rejected", idx |-> idx, processed |-> processed, pend |-> Undef]
         ELSE [pc |-> "awaiting", idx |-> idx, processed |-> processed, pend |-> r.value]

\* initializeConfig(config): warns when the cache is set already, then sets it
initializeConfig(b) ==
    IF b.pc = "fulfilled"
    THEN /\ cachedConfig' = b.processed
         /\ defines' = Append(defines, b.processed)
    ELSE UNCHANGED <<cachedConfig, defines>>

\* the configuration file is imported: export default buildConfig({ ... })
\* runs buildConfig up to its first await and the module is evaluated
ImportConfigFile ==
    /\ buildCall.pc = "unloaded"
    /\ \E c \in UserConfigs :
         LET b == BuildLoopHead(plugins, 1, c) IN
         /\ buildCall' = b
         /\ initializeConfig(b)
    /\ UNCHANGED <<reads, authModule, plugins>>
    /\ CacheOnly

\* the awaited plugin result arrives: processedConfig = await ...; next turn
PluginSettles ==
    /\ buildCall.pc = "awaiting"
    /\ LET b == BuildLoopHead(plugins, buildCall.idx + 1, buildCall.pend) IN
       /\ buildCall' = b
       /\ initializeConfig(b)
    /\ UNCHANGED <<reads, authModule, plugins>>
    /\ CacheOnly

\* refreshConfig(config), the hot-reload entry: _config = config
refreshConfig(c) ==
    /\ Len(defines) < MaxDefines
    /\ cachedConfig' = c
    /\ defines' = Append(defines, c)
    /\ UNCHANGED <<reads, authModule, plugins, buildCall>>
    /\ CacheOnly

BuildInit ==
    /\ cachedConfig = Null
    /\ defines = <<>>
    /\ reads = <<>>
    /\ authModule = [status |-> "unloaded", options |-> "none", defined |-> 0]
    /\ plugins \in Lists(PluginKinds, MaxPlugins)
    /\ buildCall = NotBuilding

BuildNext ==
    \/ ImportConfigFile
    \/ PluginSettles
    \/ getConfig
    \/ \E c \in UserConfigs : refreshConfig(c)

ConfigNext ==
    \/ \E c \in UserConfigs : cacheDefineConfig(c)
    \/ getConfig
    \/ LoadAuthModule

(***************************************************************************)
(* The admin route: Page and RootLayout (admin package, example template). *)
(***************************************************************************)
SegmentNames == {"login", "users", "settings"}

\* who is visiting: no session, a signed-in user, a signed-in admin
Sessions == {"none", "user", "admin"}

\* segments.includes("login")
Includes(segs, x) == \E i \in 1..Len(segs) : segs[i] = x

\* RootLayout({ segments, config }): the element it returns
RootLayout(segs) ==
    IF Includes(segs, "login") THEN "LoginPage" ELSE "DashboardLayout"

\* segments || [] for the optional catch-all parameter
OrEmptyList(segs) == IF segs.t = "undefined" THEN <<>> ELSE segs.items

\* the optional catch-all parameter: absent for /admin itself, a list otherwise
NoSegments == [t |-> "undefined", items |-> <<>>]
Segments(l) == [t |-> "array", items |-> l]

\* Page is called for the request and awaits params
PageCalled ==
    /\ page.pc = "idle"
    /\ page' = [page EXCEPT !.pc = "awaiting"]
    /\ UNCHANGED request
    /\ AdminOnly

\* params resolves: return <RootLayout segments={segments || []} config={config} />
PageRenders ==
    /\ page.pc = "awaiting"
    /\ page' = [pc |-> "rendered", element |-> RootLayout(OrEmptyList(request.segments))]
    /\ UNCHANGED request
    /\ AdminOnly

AdminIdle ==
    /\ request = [session |-> "none", segments |-> NoSegments]
    /\ page = [pc |-> "idle", element |-> "none"]

AdminInit ==
    /\ request \in [session : Sessions,
                    segments : {NoSegments} \cup
                               {Segments(l) : l \in Lists(SegmentNames, MaxSegments)}]
    /\ page = [pc |-> "idle", element |-> "none"]

AdminNext ==
    \/ PageCalled
    \/ PageRenders

(***************************************************************************)
(* create-deesse-app (init, copyDir).                                      *)
(***************************************************************************)
\* project names a user can type; the last two resolve to the current directory
ProjectNames == {"app", ".", "./"}

Dirs == {"cwd", "cwd/app"}

\* files that may lie in a directory before the run
FileNames == {".env", "package.json", "notes.txt"}

\* the files of the chosen template, under the names copyDir gives them
\* (_gitignore is copied as .gitignore)
TemplateFiles == {"package.json", ".gitignore"}

\* path.join(cwd, projectName), and cwd itself for '.'
TargetDir(name) == IF name = "app" THEN "cwd/app" ELSE "cwd"

\* fs.readdirSync(dir): its files, and for cwd the project directory inside it
ReadDir(d, dir) ==
    d[dir].files \cup (IF dir = "cwd" /\ d["cwd/app"].exists THEN {"app"} ELSE {})

\* the prompts are answered (the answers are in answer), or cancelled
PromptsAnswered ==
    /\ run.pc = "prompts"
    /\ run' = [run EXCEPT !.pc = "target"]
    /\ UNCHANGED <<answer, disk>>
    /\ ScaffoldOnly

PromptsCancelled ==
    /\ run.pc = "prompts"
    /\ run' = [run EXCEPT !.pc = "exited", !.status = 1]
    /\ UNCHANGED <<answer, disk>>
    /\ ScaffoldOnly

\* the target directory check: exit 1 on a non-empty directory of another
\* name than '.', create the directory when it is missing
CheckTargetDir ==
    /\ run.pc = "target"
    /\ LET t == TargetDir(answer.projectName) IN
       IF answer.projectName # "." /\ disk[t].exists
       THEN /\ run' = IF ReadDir(disk, t) # {}
                      THEN [run EXCEPT !.pc = "exited", !.status = 1]
                      ELSE [run EXCEPT !.pc = "template"]
            /\ UNCHANGED disk
       ELSE /\ run' = [run EXCEPT !.pc = "template"]
            /\ disk' = IF ~disk[t].exists
                       THEN [disk EXCEPT ![t] = [exists |-> TRUE, files |-> {}]]
                       ELSE disk
    /\ UNCHANGED answer
    /\ ScaffoldOnly

\* exit 1 when the template directory is not in the package
CheckTemplate ==
    /\ run.pc = "template"
    /\ run' = IF answer.templateExists
              THEN [run EXCEPT !.pc = "copy"]
              ELSE [run EXCEPT !.pc = "exited", !.status = 1]
    /\ UNCHANGED <<answer, disk>>
    /\ ScaffoldOnly

\* writing files into a directory: they are created or overwritten
WriteFiles(d, dir, names) == [d EXCEPT ![dir].files = @ \cup names]

\* copyDir(templateDir, targetDir)
copyDir ==
    /\ run.pc = "copy"
    /\ LET t == TargetDir(answer.projectName) IN
       /\ disk' = WriteFiles(disk, t, TemplateFiles)
       /\ run' = [run EXCEPT !.pc = "env", !.wrote = @ \cup TemplateFiles]
    /\ UNCHANGED answer
    /\ ScaffoldOnly

\* fs.writeFileSync(path.join(targetDir, '.env'), envContent)
WriteEnv ==
    /\ run.pc = "env"
    /\ LET t == TargetDir(answer.projectName) IN
       /\ disk' = WriteFiles(disk, t, {".env"})
       /\ run' = [run EXCEPT !.pc = "package", !.wrote = @ \cup {".env"}]
    /\ UNCHANGED answer
    /\ ScaffoldOnly

\* package.json gets the project name, dependencies are installed, the run ends
FinishProject ==
    /\ run.pc = "package"
    /\ run' = [run EXCEPT !.pc = "exited", !.status = 0]
    /\ UNCHANGED <<answer, disk>>
    /\ ScaffoldOnly

NotRun(d) == [pc |-> "prompts", status |-> 0, wrote |-> {}, before |-> d]

NoDisk == [dir \in Dirs |-> [exists |-> dir = "cwd", files |-> {}]]

ScaffoldIdle ==
    /\ answer = [projectName |-> "app", templateExists |-> TRUE]
    /\ disk = NoDisk
    /\ run = NotRun(NoDisk)

ScaffoldInit ==
    /\ answer \in [projectName : ProjectNames, templateExists : BOOLEAN]
    /\ \E cwdFiles \in SUBSET FileNames, appExists \in BOOLEAN, appFiles \in SUBSET FileNames :
         /\ ~appExists => appFiles = {}
         /\ disk = [dir \in Dirs |->
                      IF dir = "cwd" THEN [exists |-> TRUE, files |-> cwdFiles]
                      ELSE [exists |-> appExists, files |-> appFiles]]
    /\ run = NotRun(disk)

ScaffoldNext ==
    \/ PromptsAnswered
    \/ PromptsCancelled
    \/ CheckTargetDir
    \/ CheckTemplate
    \/ copyDir
    \/ WriteEnv
    \/ FinishProject

(***************************************************************************)
(* The hook pipeline of a data operation (Hooks & Lifecycle System: Data   *)
(* Flow Order, Error Handling and Abort Semantics).                        *)
(***************************************************************************)
OpKinds == {"create", "update", "delete"}

\* the hook phases of one operation; "before" and "after" stand for
\* beforeCreate / beforeUpdate / beforeDelete and afterCreate / ...
HookPhases == {"beforeValidate", "afterValidate", "before", "after"}

\* the deterministic pipeline, stage by stage
Stages == <<"beforeValidate", "validate", "afterValidate", "before", "db", "after">>

\* what a hook does when it is run
HookKinds == {"ok", "throws"}

\* the next thing to run from (stage, idx) on: a phase without a hook at
\* idx is passed over
RECURSIVE Seek(_, _, _)
Seek(o, stage, idx) ==
    IF stage > Len(Stages) THEN [stage |-> stage, idx |-> 1]
    ELSE IF Stages[stage] \in HookPhases /\ idx > Len(o.hooks[Stages[stage]])
         THEN Seek(o, stage + 1, 1)
         ELSE [stage |-> stage, idx |-> idx]

\* the step at (stage, idx) went through: on to the next one
Advance(p, o) ==
    LET at == IF Stages[p.stage] \in HookPhases
              THEN Seek(o, p.stage, p.idx + 1)
              ELSE Seek(o, p.stage + 1, 1) IN
    [p EXCEPT !.stage = at.stage, !.idx = at.idx]

\* the mutant of OnThrow: the error is swallowed and the pipeline goes on
OnThrowGoesOn(p, o) == Advance(p, o)

\* a hook or the validation threw: the pipeline stops; after the database
\* operation the change stays and a warning is emitted
OnThrow(p, o) ==
    IF Stages[p.stage] = "after"
    THEN [p EXCEPT !.status = "warned"]
    ELSE [p EXCEPT !.status = "aborted"]

Here(p) == [stage |-> Stages[p.stage], idx |-> p.idx]

StartOperation ==
    /\ pipe.status = "idle"
    /\ LET at == Seek(op, 1, 1) IN
       pipe' = [pipe EXCEPT !.status = "running", !.stage = at.stage, !.idx = at.idx]
    /\ UNCHANGED op
    /\ HookOnly

\* the next hook of the current phase is called and returns or throws
RunHook ==
    /\ pipe.status = "running"
    /\ pipe.stage <= Len(Stages)
    /\ Stages[pipe.stage] \in HookPhases
    /\ LET p == [pipe EXCEPT !.ran = Append(@, Here(pipe))] IN
       pipe' = IF op.hooks[Stages[pipe.stage]][pipe.idx] = "throws"
               THEN OnThrow([p EXCEPT !.threw = Here(pipe)], op)
               ELSE Advance(p, op)
    /\ UNCHANGED op
    /\ HookOnly

\* Zod validation of the data
Validate ==
    /\ pipe.status = "running"
    /\ pipe.stage <= Len(Stages)
    /\ Stages[pipe.stage] = "validate"
    /\ LET p == [pipe EXCEPT !.ran = Append(@, Here(pipe))] IN
       pipe' = IF op.valid
               THEN Advance(p, op)
               ELSE OnThrow([p EXCEPT !.threw = Here(pipe)], op)
    /\ UNCHANGED op
    /\ HookOnly

\* the insert, update or delete itself
DatabaseOperation ==
    /\ pipe.status = "running"
    /\ pipe.stage <= Len(Stages)
    /\ Stages[pipe.stage] = "db"
    /\ pipe' = Advance([pipe EXCEPT !.ran = Append(@, Here(pipe)), !.db = TRUE], op)
    /\ UNCHANGED op
    /\ HookOnly

\* every stage went through
OperationCompletes ==
    /\ pipe.status = "running"
    /\ pipe.stage > Len(Stages)
    /\ pipe' = [pipe EXCEPT !.status = "done"]
    /\ UNCHANGED op
    /\ HookOnly

NoThrow == [stage |-> "none", idx |-> 0]

NoPipe == [status |-> "idle", stage |-> 1, idx |-> 1, ran |-> <<>>, db |-> FALSE,
           threw |-> NoThrow]

HookIdle ==
    /\ op = [kind |-> "create", valid |-> TRUE, hooks |-> [ph \in HookPhases |-> <<>>]]
    /\ pipe = NoPipe

HookInit ==
    /\ op \in [kind : OpKinds, valid : BOOLEAN,
               hooks : [HookPhases -> Lists(HookKinds, MaxHooks)]]
    /\ pipe = NoPipe

HookNext ==
    \/ StartOperation
    \/ RunHook
    \/ Validate
    \/ DatabaseOperation
    \/ OperationCompletes

(***************************************************************************)
(* The context builder: context() with use, build, reset.                  *)
(***************************************************************************)
\* context plugins: two that contribute a key, one whose setup returns no
\* context object, one whose setup throws, and the admin plugin, whose setup
\* declares dependencies: ['database']
ContextPlugins == {"AuthPlugin", "DatabasePlugin", "PlainPlugin", "ThrowingPlugin",
                   "AdminPlugin"}

\* plugin('admin', ...): the id a plugin is defined with
PluginId(plugin) ==
    CASE plugin = "AuthPlugin"     -> "auth"
      [] plugin = "DatabasePlugin" -> "database"
      [] plugin = "PlainPlugin"    -> "plain"
      [] plugin = "ThrowingPlugin" -> "throwing"
      [] plugin = "AdminPlugin"    -> "admin"

\* setup.dependencies: the ids of the plugins a plugin depends on
Dependencies(plugin) == IF plugin = "AdminPlugin" THEN {"database"} ELSE {}

\* plugin.setup(options || {}): the context object of the setup, if any; the
\* value under a key is the number of the use() call that contributed it
PluginSetup(plugin, n) ==
    CASE plugin = "AuthPlugin"     -> [threw |-> FALSE, hasContext |-> TRUE,
                                       context |-> [auth |-> n]]
      [] plugin = "DatabasePlugin" -> [threw |-> FALSE, hasContext |-> TRUE,
                                       context |-> [db |-> n]]
      [] plugin = "PlainPlugin"    -> [threw |-> FALSE, hasContext |-> FALSE,
                                       context |-> EmptyObj]
      [] plugin = "ThrowingPlugin" -> [threw |-> TRUE, hasContext |-> FALSE,
                                       context |-> EmptyObj]
      [] plugin = "AdminPlugin"    -> [threw |-> FALSE, hasContext |-> TRUE,
                                       context |-> [admin |-> n]]

\* the mutant of ResetBuilder: only usedPlugins is cleared
ResetPluginsOnly(b, h) ==
    [builder |-> [b EXCEPT !.usedPlugins = <<>>], heap |-> h]

\* reset(): context = {}; usedPlugins.length = 0
ResetBuilder(b, h) ==
    [builder |-> [context |-> Len(h) + 1, usedPlugins |-> <<>>],
     heap |-> Append(h, EmptyObj)]

\* use(plugin, options): push the plugin, run its setup, merge its context
\* object into a new context object
UseBuilder(b, h, plugin, n) ==
    LET setup == PluginSetup(plugin, n)
        pushed == [b EXCEPT !.usedPlugins = Append(@, plugin)] IN
    IF setup.threw \/ ~setup.hasContext
    THEN [builder |-> pushed, heap |-> h]
    ELSE [builder |-> [pushed EXCEPT !.context = Len(h) + 1],
          heap |-> Append(h, Spread(h[b.context], setup.context))]

BuilderOps == uses.made + uses.resets + Len(builds)

use(plugin) ==
    /\ BuilderOps < MaxBuilderOps
    /\ LET r == UseBuilder(builder, heap, plugin, uses.made + 1) IN
       /\ builder' = r.builder
       /\ heap' = r.heap
    /\ uses' = [uses EXCEPT !.made = @ + 1,
                            !.merged = IF builder'.context # builder.context
                                       THEN Append(@, plugin) ELSE @]
    /\ UNCHANGED builds
    /\ BuilderOnly

\* build(): return { ...context }, a new object
build ==
    /\ BuilderOps < MaxBuilderOps
    /\ heap' = Append(heap, Spread(EmptyObj, heap[builder.context]))
    /\ builds' = Append(builds, [ref |-> Len(heap) + 1,
                                 snap |-> heap[builder.context],
                                 madeAtReset |-> uses.madeAtReset,
                                 resets |-> uses.resets,
                                 made |-> uses.made,
                                 merged |-> uses.merged])
    /\ UNCHANGED <<builder, uses>>
    /\ BuilderOnly

reset ==
    /\ BuilderOps < MaxBuilderOps
    /\ LET r == ResetBuilder(builder, heap) IN
       /\ builder' = r.builder
       /\ heap' = r.heap
    /\ uses' = [uses EXCEPT !.madeAtReset = uses.made, !.resets = @ + 1,
                            !.merged = <<>>]
    /\ UNCHANGED builds
    /\ BuilderOnly

\* context(): let context = {}; const usedPlugins = []
BuilderIdle ==
    /\ builder = [context |-> 1, usedPlugins |-> <<>>]
    /\ heap = <<EmptyObj>>
    /\ builds = <<>>
    /\ uses = [made |-> 0, madeAtReset |-> 0, resets |-> 0, merged |-> <<>>]

BuilderNext ==
    \/ \E plugin \in ContextPlugins : use(plugin)
    \/ build
    \/ reset

(***************************************************************************)
(* The specifications.                                                     *)
(***************************************************************************)
Init == CtxInit /\ DbIdle /\ AppIdle /\ CacheIdle /\ AdminIdle /\ ScaffoldIdle /\ HookIdle /\ BuilderIdle

Spec == Init /\ [][CtxNext]_vars

InitDb == CtxInit /\ DbInit /\ AppIdle /\ CacheIdle /\ AdminIdle /\ ScaffoldIdle /\ HookIdle /\ BuilderIdle

SpecDb == InitDb /\ [][DbNext]_vars

InitApp == CtxInit /\ DbIdle /\ AppInit /\ CacheIdle /\ AdminIdle /\ ScaffoldIdle /\ HookIdle /\ BuilderIdle

InitConfig == CtxInit /\ DbIdle /\ AppIdle /\ CacheIdle /\ AdminIdle /\ ScaffoldIdle /\ HookIdle /\ BuilderIdle

SpecConfig == InitConfig /\ [][ConfigNext]_vars

InitBuild == CtxInit /\ DbIdle /\ AppIdle /\ BuildInit /\ AdminIdle /\ ScaffoldIdle /\ HookIdle /\ BuilderIdle

SpecBuild == InitBuild /\ [][BuildNext]_vars

InitAdmin == CtxInit /\ DbIdle /\ AppIdle /\ CacheIdle /\ AdminInit /\ ScaffoldIdle /\ HookIdle /\ BuilderIdle

SpecAdmin == InitAdmin /\ [][AdminNext]_vars

InitScaffold == CtxInit /\ DbIdle /\ AppIdle /\ CacheIdle /\ AdminIdle /\ ScaffoldInit /\ HookIdle /\ BuilderIdle

SpecScaffold == InitScaffold /\ [][ScaffoldNext]_vars

InitHooks == CtxInit /\ DbIdle /\ AppIdle /\ CacheIdle /\ AdminIdle /\ ScaffoldIdle /\ HookInit /\ BuilderIdle

SpecHooks == InitHooks /\ [][HookNext]_vars

InitBuilder == CtxInit /\ DbIdle /\ AppIdle /\ CacheIdle /\ AdminIdle /\ ScaffoldIdle /\ HookIdle /\ BuilderIdle

SpecBuilder == InitBuilder /\ [][BuilderNext]_vars

SpecApp == InitApp /\ [][AppNext]_vars

(***************************************************************************)
(* Properties of the context system.                                       *)
(***************************************************************************)
DoneCalls == {i \in 1..Len(calls) : calls[i].pc = "done"}

\* the object a settled call handed to its caller
ResultOf(i) == ctxs[calls[i].res]

\* the fragments of log[1..n], merged left to right
RECURSIVE MergeFrags(_, _)
MergeFrags(log, n) ==
    IF n = 0 THEN EmptyObj ELSE Spread(MergeFrags(log, n - 1), log[n].frag)

\* the sequential reduce over a list of providers, from ctx
RECURSIVE Reduce(_, _, _)
Reduce(ps, n, ctx) ==
    IF n > Len(ps)
    THEN ctx
    ELSE Reduce(ps, n + 1, Spread(ctx, ProviderResult(ps[n], ctx).value))

RECURSIVE NotLate(_, _)
NotLate(log, n) ==
    IF n > Len(log)
    THEN <<>>
    ELSE IF log[n].late THEN NotLate(log, n + 1)
         ELSE <<log[n].p>> \o NotLate(log, n + 1)

\* C1: the context returned by getContext has as keys exactly the union of
\* the keys of the fragments its providers returned, and a key returned by
\* several providers is bound to the value of the one registered last.
C1_UnionLastRegisteredWins ==
    \A i \in DoneCalls :
        LET c == calls[i]
            obj == ResultOf(i).props
            withKey(k) == {j \in 1..Len(c.log) : k \in DOMAIN c.log[j].frag}
        IN  /\ DOMAIN obj = UNION {DOMAIN c.log[j].frag : j \in 1..Len(c.log)}
            /\ \A k \in DOMAIN obj :
                 \E j \in withKey(k) :
                    /\ \A j2 \in withKey(k) : c.log[j2].reg <= c.log[j].reg
                    /\ obj[k] = c.log[j].frag[k]

\* a returned context built from two providers that both returned "db", with
\* different values, and a third key from another provider
C1_Witness ==
    \E i \in DoneCalls :
        /\ \E j1, j2 \in 1..Len(calls[i].log) :
              /\ j1 # j2
              /\ "db" \in DOMAIN calls[i].log[j1].frag
              /\ "db" \in DOMAIN calls[i].log[j2].frag
              /\ calls[i].log[j1].frag.db # calls[i].log[j2].frag.db
        /\ "audit" \in DOMAIN ResultOf(i).props

\* C2: every provider getContext invokes is invoked after the providers
\* registered before it, and with exactly the merge of their fragments (the
\* first with an empty context).
C2_ArgIsMergeOfEarlierRegistered ==
    \A i \in 1..Len(calls) :
        \A j \in 1..Len(calls[i].invoked) :
            LET e == calls[i].invoked[j] IN
            /\ e.before = Regs(SubSeq(calls[i].log, 1, j - 1))
            /\ e.arg = MergeFrags(calls[i].log, j - 1)

\* C3: when a provider throws, it is the last provider the call invokes, the
\* call fails with that error, and no context is handed to the caller.
C3_ThrowAborts ==
    \A i \in 1..Len(calls) :
        LET c == calls[i] IN
        /\ \A j \in 1..Len(c.invoked) :
              LET r == ProviderResult(c.invoked[j].p, c.invoked[j].arg) IN
              r.threw =>
                 /\ j = Len(c.invoked)
                 /\ c.res = 0
                 /\ c.pc \in {"await", "failed"}
                 /\ c.pc = "failed" => c.err = r.err
        /\ c.pc = "failed" => Len(c.invoked) = Len(c.log) + 1

\* a failed call that had merged an earlier fragment, with a provider still
\* registered after the one that threw
C3_Witness ==
    \E i \in 1..Len(calls) :
        /\ calls[i].pc = "failed"
        /\ Len(calls[i].log) >= 1
        /\ Len(registry) > calls[i].idx
        /\ ~calls[i].sawReset

\* C4: a context handed out by getContext or withContext keeps the keys and
\* values it was built with.
C4_ReadOnly ==
    \A i \in 1..Len(ctxs) : ctxs[i].frozen /\ ctxs[i].props = ctxs[i].orig

\* a returned context with properties and one derived from it exist, a
\* holder has written to one of them, and the registry was reset afterwards
C4_Witness ==
    /\ wrote
    /\ \E i \in DoneCalls : ResultOf(i).props # EmptyObj
    /\ \E i \in 1..Len(ctxs) : \A j \in 1..Len(calls) : calls[j].res # i
    /\ registry = <<>>
    /\ nextReg >= 1

\* C5 as stated: a provider registered after a context was built (and before
\* a reset) does not change what later getContext calls return.
C5_LateAddChangesNothing ==
    \A i \in DoneCalls :
        ResultOf(i).orig = Reduce(NotLate(calls[i].log, 1), 1, EmptyObj)

\* C5 amended: addContext registers the provider whether or not a context
\* has been built: the registry holds exactly the providers added since the
\* last reset, in order, and a call not crossed by a reset runs every
\* provider that was registered when it started, in that order.
C5_LateAddTakesEffect ==
    /\ Regs(registry) = added
    /\ \A i \in DoneCalls :
          ~calls[i].sawReset =>
             /\ Len(calls[i].log) >= Len(calls[i].snap)
             /\ \A j \in 1..Len(calls[i].snap) : calls[i].log[j].reg = calls[i].snap[j]

\* a second getContext returned a context holding the fragment of a provider
\* registered after the first one had returned
C5_Witness ==
    \E i \in DoneCalls :
        /\ ~calls[i].sawReset
        /\ \E j \in 1..Len(calls[i].log) :
              /\ calls[i].log[j].late
              /\ calls[i].log[j].reg \in {calls[i].snap[n] : n \in 1..Len(calls[i].snap)}
        /\ ResultOf(i).orig # Reduce(NotLate(calls[i].log, 1), 1, EmptyObj)

\* the registrations a reset had cleared before call i was made
ClearedBefore(i) ==
    {n \in 1..calls[i].startReg : \A j \in 1..Len(calls[i].snap) : calls[i].snap[j] # n}

\* C22: a getContext call made when every provider registered so far has
\* been cleared returns an empty context, and no provider cleared by a reset
\* before a call was made is invoked by it or contributes to its result.
C22_ResetClearsProviders ==
    \A i \in 1..Len(calls) :
        /\ \A j \in 1..Len(calls[i].invoked) : calls[i].invoked[j].reg \notin ClearedBefore(i)
        /\ calls[i].snap = <<>> =>
              /\ calls[i].pc = "done"
              /\ ResultOf(i).orig = EmptyObj

C22_Witness ==
    \E i, k \in DoneCalls :
        /\ ClearedBefore(i) # {} /\ calls[i].snap = <<>>
        /\ ClearedBefore(k) # {} /\ Len(calls[k].log) > 0

\* C23: a getContext call that returns has run exactly the providers that
\* were registered when it was called, each once and in order, whatever
\* addContext and resetContext calls were made while it was suspended, and
\* its result is the merge of exactly their fragments.
C23_SuspendedCallUnaffected ==
    \A i \in DoneCalls :
        /\ Regs(calls[i].log) = calls[i].snap
        /\ Regs(calls[i].invoked) = calls[i].snap
        /\ ResultOf(i).orig = MergeFrags(calls[i].log, Len(calls[i].snap))

(***************************************************************************)
(* Properties of defineConfig, generateDatabase, query and mutation.       *)
(***************************************************************************)
Called == call.pc # "idle"

\* C6: building the configuration with a required setting missing (no
\* secret in the environment, no database) throws, and no handler runs
\* unless that build has thrown.
C6_MissingSettingThrowsAtBuild ==
    (env.DEESSE_SECRET = "undefined" \/ config.database = "undefined") =>
        /\ final.status # "returned"
        /\ call.handler # <<>> => final.status = "threw"

\* C7: generateDatabase returns, and under the slug of every collection of
\* its list the database holds an object whose properties are exactly
\* create, update, delete and find.
C7_AccessorExposesCrudMethods ==
    database.status # "idle" =>
        /\ database.status = "returned"
        /\ \A i \in 1..Len(collections) :
              DOMAIN database.props[collections[i].slug] = CollectionMethods

\* C8 as stated: called with an argument the args schema rejects, the
\* function never invokes the handler and the validation error reaches the
\* caller.
C8_RejectedArgumentNeverReachesHandler ==
    (Called /\ fn.schema # "none" /\ ~Parse(fn.schema, args).ok) =>
        /\ call.handler = <<>>
        /\ call.threwSync \/ call.promise = [state |-> "rejected", value |-> "ZodError"]
        /\ call.pc = "observed" => call.caught = "ZodError"

\* C8 amended: the same, for the value the function validates: the
\* argument, or {} when the argument is omitted or null.
C8_RejectedArgsOrEmptyNeverReachHandler ==
    (Called /\ fn.schema # "none" /\ ~Parse(fn.schema, OrEmpty(args)).ok) =>
        /\ call.handler = <<>>
        /\ call.threwSync \/ call.promise = [state |-> "rejected", value |-> "ZodError"]
        /\ call.pc = "observed" => call.caught = "ZodError"

\* the caller of a function with a schema has caught the validation error of
\* an object argument
C8_Witness ==
    /\ call.pc = "observed"
    /\ fn.schema \notin {"none", "any"}
    /\ args.t = "object"
    /\ ~Parse(fn.schema, args).ok
    /\ call.caught = "ZodError"
    /\ call.handler = <<>>

\* C9 as stated: the validation error is thrown by the call itself, before
\* it returns, and is not delivered through the returned promise.
C9_ValidationErrorThrownByTheCall ==
    (Called /\ ValidationThrows(fn.schema, args)) =>
        /\ call.threwSync
        /\ call.promise.state # "rejected"

\* C9 amended: validation runs inside the call, before it returns and before
\* the handler, but the call never throws: it returns a promise that is
\* already rejected with the validation error, which the caller gets when it
\* awaits that promise.
C9_ValidationErrorRejectsThePromise ==
    Called =>
        /\ ~call.threwSync
        /\ call.pc # "threw"
        /\ (fn.schema # "none" /\ ~Parse(fn.schema, OrEmpty(args)).ok) =>
              /\ call.promise = [state |-> "rejected", value |-> "ZodError"]
              /\ call.caught = IF call.pc = "observed" THEN "ZodError" ELSE "none"

\* the call has returned a promise rejected with the validation error, which
\* the caller has not observed yet
C9_Witness ==
    /\ call.pc = "returned"
    /\ fn.schema # "none"
    /\ call.promise = [state |-> "rejected", value |-> "ZodError"]
    /\ call.caught = "none"

\* C10: the handler receives the output of the args schema (keys stripped,
\* values coerced, defaults filled in).
C10_HandlerReceivesParsedOutput ==
    (call.handler # <<>> /\ fn.schema # "none") =>
        call.handler[1].args = Parse(fn.schema, OrEmpty(args)).out
\* C11: in every handler run after the configuration was defined, ctx.db is
\* an object with an accessor under the slug of each collection the
\* configuration lists.
C11_CtxDbHasEveryConfiguredCollection ==
    (call.handler # <<>> /\ call.configured) =>
        LET db == call.handler[1].ctx.db IN
        /\ db.t = "object"
        /\ \A i \in 1..Len(config.collections) :
              config.collections[i].slug \in DOMAIN db.props
\* the id of the extension whose setup a provider is: the two database
\* adapters are both extension({ id: "db", ... })
ExtensionId(p) == IF p \in {"db1", "db2"} THEN "db" ELSE p

\* the capabilities a fragment carries
FragValues(frag) == {frag[k] : k \in DOMAIN frag}

\* C18: when two different extensions of one id were registered, nothing
\* that the one registered earlier contributed is in the context getContext
\* returns.
C18_OnlyLastExtensionOfAnIdRemains ==
    \A i \in DoneCalls :
        LET log == calls[i].log IN
        \A j, k \in 1..Len(log) :
            (/\ log[j].reg < log[k].reg
             /\ log[j].p # log[k].p
             /\ ExtensionId(log[j].p) = ExtensionId(log[k].p)) =>
                \A key \in DOMAIN ResultOf(i).props :
                    ResultOf(i).props[key] \notin FragValues(log[j].frag)

\* two collections of the list share a slug
HasDuplicateSlug(cols) ==
    \E i, j \in 1..Len(cols) : i < j /\ cols[i].slug = cols[j].slug

\* C17: a list in which two collections share a slug is rejected: neither
\* generateDatabase nor initializeDatabase returns a result built from it.
C17_DuplicateSlugRejected ==
    HasDuplicateSlug(collections) =>
        /\ database.status # "returned"
        /\ registered.status # "returned"

\* C24: once both designs have been initialized with the same list, their
\* getCollections, their getCollection (for every slug) and their
\* generateDatabase return the same values.
C24_DesignsAgree ==
    (registered.status = "returned" /\ globalCollections.status = "returned") =>
        /\ RegistryGetCollections(registered.map)
              = ArrayGetCollections(globalCollections.list)
        /\ \A slug \in Slugs :
              RegistryGetCollection(registered.map, slug)
                = ArrayGetCollection(globalCollections.list, slug)
        /\ dbGenerator(RegistryGetCollections(registered.map), 1, EmptyObj)
              = dbGenerator(ArrayGetCollections(globalCollections.list), 1, EmptyObj)

(***************************************************************************)
(* Properties of the configuration cache.                                  *)
(***************************************************************************)
\* C12: a getConfig call throws exactly when no defineConfig call completed
\* before it, and the auth module, which calls getConfig while it is loaded,
\* fails to load exactly when it is loaded before any defineConfig call.
C12_ThrowsIffNotDefined ==
    /\ \A i \in 1..Len(reads) : reads[i].threw <=> reads[i].defined = 0
    /\ authModule.status = "failed" <=> (authModule.status # "unloaded" /\ authModule.defined = 0)

C12_Witness ==
    /\ Len(reads) = 2 /\ reads[1].threw /\ ~reads[2].threw
    /\ authModule.status = "failed"

\* C13: once a configuration has been defined, getConfig keeps returning
\* that first configuration whatever is defined later.
C13_FirstDefinitionStays ==
    \A i \in 1..Len(reads) : ~reads[i].threw => reads[i].value = defines[1]
\* C14: once the configuration file has been evaluated, no getConfig call
\* throws, whatever the plugins and however far buildConfig has got.
C14_NoThrowAfterImport ==
    \A i \in 1..Len(reads) : reads[i].evaluated => ~reads[i].threw
(***************************************************************************)
(* Properties of the admin route.                                          *)
(***************************************************************************)
\* C15: whatever the segments, the dashboard layout is rendered only for a
\* visitor signed in as an admin.
C15_DashboardOnlyForAdmin ==
    (page.pc = "rendered" /\ page.element = "DashboardLayout") =>
        request.session = "admin"
(***************************************************************************)
(* Properties of create-deesse-app.                                        *)
(***************************************************************************)
\* the target directory existed with content when the run started
TargetHadContent ==
    LET t == TargetDir(answer.projectName) IN
    run.before[t].exists /\ ReadDir(run.before, t) # {}

\* C16: when the target directory had content, the run writes nothing into
\* it and, when it ends, has exited with status 1.
C16_NeverWritesIntoContent ==
    TargetHadContent =>
        /\ run.wrote = {}
        /\ disk = run.before
        /\ run.pc = "exited" => run.status = 1
\* C26: when the run has exited with an error status, every directory is as
\* it was before the run: nothing has been created or written.
C26_ErrorExitLeavesNothing ==
    (run.pc = "exited" /\ run.status = 1) => disk = run.before

(***************************************************************************)
(* Properties of the hook pipeline.                                        *)
(***************************************************************************)
\* something threw before the database operation
ThrewBeforeDb == pipe.threw.stage \in {"beforeValidate", "validate", "before"}

\* C19: after a throw from beforeValidate, from the validation or from a
\* before-operation hook the operation is aborted: the step that threw is
\* the last one that ran, so the database operation has not been executed
\* and no hook after the operation has run or runs.
C19_ThrowBeforeDbAborts ==
    ThrewBeforeDb =>
        /\ pipe.status = "aborted"
        /\ ~pipe.db
        /\ \A i \in 1..Len(pipe.ran) : pipe.ran[i].stage \notin {"db", "after"}
        /\ pipe.ran[Len(pipe.ran)] = pipe.threw

C19_Witness ==
    /\ pipe.threw.stage = "before"
    /\ Len(op.hooks["after"]) > 0
    /\ \E i \in 1..Len(pipe.ran) : pipe.ran[i].stage = "afterValidate"
(***************************************************************************)
(* Properties of the context builder.                                      *)
(***************************************************************************)
\* C20: what build() returns holds only what use() calls made after the
\* last reset before it contributed, and an object build() returned still
\* holds what it held when it was returned, whatever reset and use calls
\* followed.
C20_ResetClearsAndBuildsStay ==
    \A i \in 1..Len(builds) :
        /\ \A k \in DOMAIN builds[i].snap : builds[i].snap[k] > builds[i].madeAtReset
        /\ heap[builds[i].ref] = builds[i].snap

C20_Witness ==
    \E i, j \in 1..Len(builds) :
        /\ i < j
        /\ DOMAIN builds[i].snap # {}
        /\ builds[i].resets = 0 /\ builds[j].resets = 1
        /\ builds[j].made > builds[j].madeAtReset
        /\ DOMAIN builds[j].snap # {}
\* C21: in the context build() returns, the fragment of a plugin that
\* declares dependencies was merged after the fragments of the plugins it
\* depends on, whatever the order of the use() calls.
C21_DependenciesMergedFirst ==
    \A b \in 1..Len(builds) :
        LET merged == builds[b].merged IN
        \A i, k \in 1..Len(merged) :
            PluginId(merged[k]) \in Dependencies(merged[i]) =>
                \E j \in 1..(i - 1) : PluginId(merged[j]) = PluginId(merged[k])
\* every entry of config.plugins is a function that returns a config
AllPluginsSucceed == \A i \in 1..Len(plugins) : plugins[i] = "function"

\* C25: buildConfig fulfils only when every plugin succeeded, and then the
\* config it stored went through the plugins in list order, each applied to
\* what the one before returned; while plugins are pending, and for good
\* when one throws, buildConfig stores nothing: unless refreshConfig stored
\* a config, the cache is empty and getConfig throws.
C25_PluginsInOrderThenCache ==
    /\ buildCall.pc = "fulfilled" =>
          /\ AllPluginsSucceed
          /\ buildCall.processed.props.applied = [i \in 1..Len(plugins) |-> i]
          /\ \E d \in 1..Len(defines) : defines[d] = buildCall.processed
    /\ ~AllPluginsSucceed => buildCall.pc # "fulfilled"
    /\ (buildCall.pc \in {"awaiting", "rejected"} /\ defines = <<>>) =>
          cachedConfig = Null
    /\ \A i \in 1..Len(reads) : reads[i].defined = 0 => reads[i].threw

C25_Witness ==
    /\ buildCall.pc = "rejected"
    /\ buildCall.idx = 2
    /\ \E i \in 1..Len(reads) : reads[i].evaluated /\ reads[i].threw
====
